---- MODULE Spec2Model ----
(***************************************************************************)
(* A model of tylax's tools: tools/gen_maps.py (the symbol and command     *)
(* mapping compiler that emits src/data/maps.rs) and tools/compare.py (the *)
(* Tylax-vs-Pandoc comparison harness).                                    *)
(*                                                                         *)
(* A Python str is a sequence of one-character strings; a Python dict is   *)
(* the sequence of its (key, value) items in insertion order; a text is    *)
(* the sequence of its lines, and a line is the sequence of the pieces     *)
(* whose concatenation it is (template literals as one piece, an           *)
(* interpolated token as its characters).                                  *)
(***************************************************************************)
EXTENDS Integers, Sequences, FiniteSets, TLC

(***************************************************************************)
(* Bounds of the model.                                                    *)
(***************************************************************************)
\* the number of ['k', 'v'] literals an external map.ts holds at most
MaxDocLen == 2
\* the number of invocations of gen_maps.py in one behaviour
MaxRuns == 2
\* the length of the strings escape_rust_string is applied to on their own
MaxTokLen == 3
\* the length of what an external process writes to stdout / stderr
MaxOutLen == 2
\* the number of entries of MATH_TEST_CASES that run_all_tests walks
NumCases == 2

(***************************************************************************)
(* Python str: comparison, prefix test, replace, strip.                    *)
(***************************************************************************)
\* ord(c) of the characters the model's strings are made of
CodePoint(c) ==
    CASE c = "\n" -> 10
      [] c = " "  -> 32
      [] c = "\"" -> 34
      [] c = ":"  -> 58
      [] c = "E"  -> 69
      [] c = "\\" -> 92
      [] c = "_"  -> 95
      [] c = "a"  -> 97
      [] c = "b"  -> 98
      [] c = "c"  -> 99
      [] c = "d"  -> 100
      [] c = "e"  -> 101
      [] c = "f"  -> 102
      [] c = "g"  -> 103
      [] c = "h"  -> 104
      [] c = "i"  -> 105
      [] c = "l"  -> 108
      [] c = "n"  -> 110
      [] c = "o"  -> 111
      [] c = "p"  -> 112
      [] c = "r"  -> 114
      [] c = "s"  -> 115
      [] c = "t"  -> 116
      [] c = "x"  -> 120
      [] c = "y"  -> 121
      [] OTHER    -> 0

RECURSIVE StrLess(_, _)
\* a < b for two str: lexicographic by code point, a proper prefix is smaller
StrLess(a, b) ==
    IF a = <<>> THEN b # <<>>
    ELSE IF b = <<>> THEN FALSE
    ELSE IF Head(a) = Head(b) THEN StrLess(Tail(a), Tail(b))
    ELSE CodePoint(Head(a)) < CodePoint(Head(b))

\* s.startswith(p)
StartsWith(s, p) == Len(p) <= Len(s) /\ SubSeq(s, 1, Len(p)) = p

RECURSIVE Replace(_, _, _)
\* s.replace(old, new) for a one-character old: every occurrence, left to right
Replace(s, old, new) ==
    IF s = <<>> THEN <<>>
    ELSE (IF Head(s) = old THEN new ELSE <<Head(s)>>) \o Replace(Tail(s), old, new)

Whitespace == {" ", "\n"}

RECURSIVE LStrip(_)
LStrip(s) == IF s # <<>> /\ Head(s) \in Whitespace THEN LStrip(Tail(s)) ELSE s

RECURSIVE RStrip(_)
RStrip(s) ==
    IF s # <<>> /\ s[Len(s)] \in Whitespace THEN RStrip(SubSeq(s, 1, Len(s) - 1)) ELSE s

\* s.strip(): leading and trailing whitespace removed
Strip(s) == RStrip(LStrip(s))

(***************************************************************************)
(* Python dict, as the sequence of its items in insertion order.           *)
(***************************************************************************)
Keys(d) == {d[i][1] : i \in 1..Len(d)}

\* k in d
Has(d, k) == k \in Keys(d)

\* d[k], for k in d
Get(d, k) == d[CHOOSE i \in 1..Len(d) : d[i][1] = k][2]

\* d[k] = v: an existing key keeps its place and takes the value, a new key
\* goes last
DictSet(d, k, v) ==
    IF Has(d, k)
    THEN [i \in 1..Len(d) |-> IF d[i][1] = k THEN <<k, v>> ELSE d[i]]
    ELSE Append(d, <<k, v>>)

RECURSIVE DictFrom(_, _)
\* d after d[k] = v for each (k, v) of items, in order
DictFrom(d, items) ==
    IF items = <<>> THEN d
    ELSE DictFrom(DictSet(d, items[1][1], items[1][2]), Tail(items))

\* the dict a display { k1: v1, k2: v2, ... } evaluates to: a key written
\* twice keeps its first place and its last value
DictLiteral(decls) == DictFrom(<<>>, decls)

RECURSIVE DictUpdateKeepingOld(_, _)
\* an update that leaves the names d already has as they are
DictUpdateKeepingOld(d, other) ==
    IF other = <<>> THEN d
    ELSE DictUpdateKeepingOld(
           IF Has(d, other[1][1]) THEN d ELSE Append(d, other[1]), Tail(other))

\* d.update(other)
DictUpdate(d, other) == DictFrom(d, other)

RECURSIVE InsertSorted(_, _)
\* item put into a list of items sorted by key, after equal keys (stable)
InsertSorted(sortedItems, item) ==
    IF sortedItems = <<>> THEN <<item>>
    ELSE IF StrLess(item[1], Head(sortedItems)[1])
         THEN <<item>> \o sortedItems
         ELSE <<Head(sortedItems)>> \o InsertSorted(Tail(sortedItems), item)

RECURSIVE SortedFrom(_, _)
SortedFrom(acc, items) ==
    IF items = <<>> THEN acc
    ELSE SortedFrom(InsertSorted(acc, Head(items)), Tail(items))

\* the iteration in insertion order, which sorted() is there to replace
UnsortedItems(d) == d

\* sorted(d.items()): the keys of a dict are distinct, so the order of the
\* (key, value) tuples is the order of the keys
SortedItems(d) == SortedFrom(<<>>, d)

(***************************************************************************)
(* tools/gen_maps.py: the tokens of the model and the embedded catalogs.   *)
(***************************************************************************)
Tok_pi == <<"p", "i">>
Tok_in == <<"i", "n">>
Tok_hat == <<"h", "a", "t">>
Tok_frac == <<"f", "r", "a", "c">>
Tok_typstcite == <<"t", "y", "p", "s", "t", "c", "i", "t", "e">>
Tok_aligned == <<"a", "l", "i", "g", "n", "e", "d">>
Tok_typstcite_alias ==
    <<"_", "_", "t", "y", "p", "s", "t", "c", "i", "t", "e", "_", "_">>
\* tokens only an external map.ts brings: x, y and a"b\c
Tok_x == <<"x">>
Tok_y == <<"y">>
Tok_quoted == <<"a", "\"", "b", "\\", "c">>

\* entries of the SYMBOL_MAP display, in the order they are written:
\* "pi": "pi" (line 31), "hat": "hat" (line 134)
SymbolMapDisplay == << <<Tok_pi, Tok_pi>>, <<Tok_hat, Tok_hat>> >>

\* entries of the COMMANDS_WITH_ARGS display, in the order they are written:
\* "hat": 1 (line 172), "frac": 2 (line 193), "typstcite": 1 (line 217)
CommandsWithArgsDisplay ==
    << <<Tok_hat, 1>>, <<Tok_frac, 2>>, <<Tok_typstcite, 1>> >>

\* entries of the TYPST_TO_TEX display, in the order they are written:
\* "pi": "pi" (line 226), "in": "in" (line 242)
TypstToTexDisplay == << <<Tok_pi, Tok_pi>>, <<Tok_in, Tok_in>> >>

\* The script as it is on disk: the three displays. The first is the script
\* as it stands; the other is an edit of the TYPST_TO_TEX display that writes
\* one key twice, with two values.
ScriptAsWritten ==
    [SYMBOL_MAP |-> SymbolMapDisplay,
     COMMANDS_WITH_ARGS |-> CommandsWithArgsDisplay,
     TYPST_TO_TEX |-> TypstToTexDisplay]

EmbeddedScripts ==
    { [SYMBOL_MAP |-> SymbolMapDisplay,
       COMMANDS_WITH_ARGS |-> CommandsWithArgsDisplay,
       TYPST_TO_TEX |-> r] :
      r \in { TypstToTexDisplay,
              Append(TypstToTexDisplay, <<Tok_pi, Tok_x>>) } }

(***************************************************************************)
(* escape_rust_string                                                      *)
(***************************************************************************)
\* the two replacements in the other order: the backslash that escapes a
\* quote is escaped again
EscapeQuoteFirst(s) ==
    Replace(Replace(s, "\"", <<"\\", "\"">>), "\\", <<"\\", "\\">>)

\* s.replace('\\', '\\\\').replace('"', '\\"')
escape_rust_string(s) ==
    Replace(Replace(s, "\\", <<"\\", "\\">>), "\"", <<"\\", "\"">>)

(***************************************************************************)
(* generate_rust_code: the text, a sequence of lines.                      *)
(***************************************************************************)
HeaderLines ==
    << <<"// Generated by tools/gen_maps.py">>,
       <<"// This file contains static symbol mappings from tex2typst project">>,
       <<"// Do not edit manually - regenerate using: python tools/gen_maps.py">>,
       <<>>,
       <<"use mitex_spec::{CommandSpec, CommandSpecItem, CmdShape, ArgShape, ArgPattern};">>,
       <<"use fxhash::FxHashMap;">>,
       <<"use lazy_static::lazy_static;">>,
       <<"use phf::phf_map;">>,
       <<>>,
       <<"// =============================================================================">>,
       <<"// TEX_COMMAND_SPEC: Runtime-constructed CommandSpec for mitex parser">>,
       <<"// Uses lazy_static because CommandSpec requires runtime construction">>,
       <<"// =============================================================================">>,
       <<>>,
       <<"lazy_static! {">>,
       <<"    /// LaTeX command specification for Mitex">>,
       <<"    pub static ref TEX_COMMAND_SPEC: CommandSpec = {">>,
       <<"        let mut m = FxHashMap::default();">> >>

InsertOpen == "        m.insert(\""
InsertCmd == "\".to_string(), CommandSpecItem::Cmd(CmdShape {"
InsertEnv == "\".to_string(), CommandSpecItem::Env(mitex_spec::EnvShape {"
ArgsNoneLine == <<"            args: ArgShape::Right { pattern: ArgPattern::None },">>
ArgsFixedOpen == "            args: ArgShape::Right { pattern: ArgPattern::FixedLenTerm { len: "
ArgsFixedClose == " } },"
AliasOpen == "            alias: Some(\""
AliasClose == "\".to_string()),"
AliasNoneLine == <<"            alias: None,">>
CloseLine == <<"        }));">>

\* the four lines of one symbol: no arguments, the alias
SymbolEntryLines(cmd, alias) ==
    << <<InsertOpen>> \o escape_rust_string(cmd) \o <<InsertCmd>>,
       ArgsNoneLine,
       <<AliasOpen>> \o escape_rust_string(alias) \o <<AliasClose>>,
       CloseLine >>

\* the lines of one symbol whatever COMMANDS_WITH_ARGS says of its name
SymbolLinesNoArgsCheck(item, commands) ==
    IF item[1] = <<>> \/ item[2] = <<>> THEN <<>>
    ELSE SymbolEntryLines(item[1], item[2])

\* one pass of the loop over sorted(SYMBOL_MAP.items())
SymbolLines(item, commands) ==
    IF item[1] = <<>> \/ item[2] = <<>> THEN <<>>
    ELSE IF Has(commands, item[1]) THEN <<>>
    ELSE SymbolEntryLines(item[1], item[2])

RECURSIVE SymbolLoop(_, _)
SymbolLoop(items, commands) ==
    IF items = <<>> THEN <<>>
    ELSE SymbolLines(Head(items), commands) \o SymbolLoop(Tail(items), commands)

\* the special typstcite command and the aligned environment, then the blank
\* line and the comment that open the commands with arguments
FixedLines ==
    << <<InsertOpen>> \o Tok_typstcite \o <<InsertCmd>>,
       <<ArgsFixedOpen, "1", ArgsFixedClose>>,
       <<AliasOpen>> \o Tok_typstcite_alias \o <<AliasClose>>,
       CloseLine,
       <<InsertOpen>> \o Tok_aligned \o <<InsertEnv>>,
       <<"            args: ArgPattern::None,">>,
       <<"            ctx_feature: mitex_spec::ContextFeature::None,">>,
       AliasNoneLine,
       CloseLine,
       <<>>,
       <<"        // Commands with required arguments">> >>

\* one pass of the loop over sorted(COMMANDS_WITH_ARGS.items())
ArgsLines(item) ==
    IF item[1] = Tok_typstcite THEN <<>>
    ELSE << <<InsertOpen>> \o escape_rust_string(item[1]) \o <<InsertCmd>>,
            <<ArgsFixedOpen, ToString(item[2]), ArgsFixedClose>>,
            AliasNoneLine,
            CloseLine >>

RECURSIVE ArgsLoop(_)
ArgsLoop(items) ==
    IF items = <<>> THEN <<>> ELSE ArgsLines(Head(items)) \o ArgsLoop(Tail(items))

MiddleLines ==
    << <<>>,
       <<"        CommandSpec::new(m)">>,
       <<"    };">>,
       <<"}">>,
       <<>>,
       <<"// =============================================================================">>,
       <<"// TYPST_TO_TEX: Compile-time perfect hash map for Typst -> LaTeX conversion">>,
       <<"// Uses phf for O(1) lookup with zero runtime initialization cost">>,
       <<"// =============================================================================">>,
       <<>>,
       <<"/// Typst to LaTeX symbol mapping (compile-time perfect hash)">>,
       <<"pub static TYPST_TO_TEX: phf::Map<&'static str, &'static str> = phf_map! {">> >>

PhfOpen == "    \""
PhfArrow == "\" => \""
PhfClose == "\","

\* one pass of the loop over sorted(TYPST_TO_TEX.items())
PhfLines(item) ==
    IF item[1] = <<>> \/ item[2] = <<>> THEN <<>>
    ELSE << <<PhfOpen>> \o escape_rust_string(item[1]) \o <<PhfArrow>>
            \o escape_rust_string(item[2]) \o <<PhfClose>> >>

RECURSIVE PhfLoop(_)
PhfLoop(items) ==
    IF items = <<>> THEN <<>> ELSE PhfLines(Head(items)) \o PhfLoop(Tail(items))

\* the same text with the typstcite and aligned inserts written after the
\* commands with arguments, last in the forward table
generate_rust_code_fixed_last(symbols, commands, typst) ==
    HeaderLines
    \o SymbolLoop(SortedItems(symbols), commands)
    \o ArgsLoop(SortedItems(commands))
    \o FixedLines
    \o MiddleLines
    \o PhfLoop(SortedItems(typst))
    \o << <<"};">> >>

\* the same text with the typstcite and aligned inserts written before the
\* symbols, first in the forward table
generate_rust_code_fixed_first(symbols, commands, typst) ==
    HeaderLines
    \o FixedLines
    \o SymbolLoop(SortedItems(symbols), commands)
    \o ArgsLoop(SortedItems(commands))
    \o MiddleLines
    \o PhfLoop(SortedItems(typst))
    \o << <<"};">> >>

\* generate_rust_code(), of the three module-level dicts it reads
generate_rust_code(symbols, commands, typst) ==
    HeaderLines
    \o SymbolLoop(SortedItems(symbols), commands)
    \o FixedLines
    \o ArgsLoop(SortedItems(commands))
    \o MiddleLines
    \o PhfLoop(SortedItems(typst))
    \o << <<"};">> >>

(***************************************************************************)
(* parse_map_ts: an external map.ts is the sequence of its bracketed pair  *)
(* literals, each written with single or with double quotes. A token       *)
(* between quotes of one kind holds no quote of that kind.                 *)
(***************************************************************************)
Pair(q, k, v) == [quote |-> q, key |-> k, value |-> v]

DocItems ==
    { Pair("'", Tok_pi, Tok_x),
      Pair("\"", Tok_pi, Tok_y),
      Pair("'", Tok_typstcite, Tok_typstcite_alias),
      Pair("'", Tok_aligned, Tok_x),
      Pair("'", Tok_quoted, Tok_x),
      Pair("'", <<>>, Tok_x) }

RECURSIVE SeqsUpTo(_, _)
\* the sequences over S of length n at most
SeqsUpTo(S, n) ==
    IF n = 0 THEN {<<>>}
    ELSE LET shorter == SeqsUpTo(S, n - 1)
         IN  shorter \cup {Append(s, x) : s \in shorter, x \in S}

Docs == SeqsUpTo(DocItems, MaxDocLen)

\* what sys.argv[1] names: nothing, something open() or read() fails on, or
\* a text file
Sources ==
    { [kind |-> "missing", content |-> <<>>],
      [kind |-> "unreadable", content |-> <<>>] }
    \cup { [kind |-> "file", content |-> d] : d \in Docs }

RECURSIVE Matches(_, _)
\* re.finditer(pattern, content) for the pattern of one kind of quote, with
\* the test "if key and value": the (key, value) kept, in document order
Matches(content, q) ==
    IF content = <<>> THEN <<>>
    ELSE (IF Head(content).quote = q /\ Head(content).key # <<>>
             /\ Head(content).value # <<>>
          THEN << <<Head(content).key, Head(content).value>> >>
          ELSE <<>>)
         \o Matches(Tail(content), q)

\* parse_map_ts(filepath), of the text read: the single-quoted pattern, then
\* the double-quoted one, into one dict
parse_map_ts(content) ==
    DictFrom(DictFrom(<<>>, Matches(content, "'")), Matches(content, "\""))

(***************************************************************************)
(* State of gen_maps.py: the script on disk, the output file, and the      *)
(* process of one invocation (its module-level dicts and main's locals).   *)
(***************************************************************************)
VARIABLES
    embedded,            \* the three dict displays of the script
    maps_rs,             \* src/data/maps.rs: <<>> when absent, else <<text>>
    runs,                \* invocations so far
    pc,                  \* where the process is: "shell" before any
    argv,                \* sys.argv[1:]
    SYMBOL_MAP,
    COMMANDS_WITH_ARGS,
    TYPST_TO_TEX,
    external_maps,
    rust_code

genVars ==
    <<embedded, maps_rs, runs, pc, argv, SYMBOL_MAP, COMMANDS_WITH_ARGS,
      TYPST_TO_TEX, external_maps, rust_code>>

(***************************************************************************)
(* tools/compare.py: what an external process did, and what run_tylax and  *)
(* run_pandoc return for it.                                               *)
(***************************************************************************)
OutChars == {" ", "x"}

Outputs == SeqsUpTo(OutChars, MaxOutLen)

\* no process yet
NoProc == [kind |-> "none", returncode |-> 0, stdout |-> <<>>, stderr |-> <<>>]

\* subprocess.run: the executable is not found, it runs past the timeout, or
\* it exits with a status, having written its stdout and stderr
ProcOutcomes ==
    { [kind |-> "spawn_failure", returncode |-> 0, stdout |-> <<>>, stderr |-> <<>>],
      [kind |-> "timeout", returncode |-> 0, stdout |-> <<>>, stderr |-> <<>>] }
    \cup { [kind |-> "exited", returncode |-> 0, stdout |-> o, stderr |-> <<>>] :
           o \in Outputs }
    \cup { [kind |-> "exited", returncode |-> 1, stdout |-> o, stderr |-> <<"x">>] :
           o \in Outputs }

ErrorColon == <<"E", "r", "r", "o", "r", ":", " ">>

\* run_tylax with the stdout returned as the process wrote it
run_tylax_unstripped(proc) ==
    CASE proc.kind = "spawn_failure" ->
           ErrorColon \o <<"[Errno 2] No such file or directory: 'cargo'">>
      [] proc.kind = "timeout" ->
           ErrorColon \o <<"Command '['cargo', 'run', ...]' timed out after 30 seconds">>
      [] OTHER -> proc.stdout

\* run_tylax(input_text)[0]: the exit status is not looked at
run_tylax(proc) ==
    CASE proc.kind = "spawn_failure" ->
           ErrorColon \o <<"[Errno 2] No such file or directory: 'cargo'">>
      [] proc.kind = "timeout" ->
           ErrorColon \o <<"Command '['cargo', 'run', ...]' timed out after 30 seconds">>
      [] OTHER -> Strip(proc.stdout)

\* run_pandoc(input_text)[0]
run_pandoc(proc) ==
    CASE proc.kind = "spawn_failure" -> ErrorColon \o <<"Pandoc not installed">>
      [] proc.kind = "timeout" ->
           ErrorColon \o <<"Command '['pandoc', '-f', ...]' timed out after 30 seconds">>
      [] proc.returncode # 0 -> ErrorColon \o proc.stderr
      [] OTHER -> Strip(proc.stdout)

\* the line compare_single prints for two returned strings
Result(tylax, pandoc) == IF tylax = pandoc THEN "MATCH" ELSE "DIFFER"

\* results after the body of the loop of run_all_tests for one test case
Tally(res, tylax, pandoc) ==
    [res EXCEPT
       !.tylax_success = @ + (IF StartsWith(tylax, <<"E", "r", "r", "o", "r">>) THEN 0 ELSE 1),
       !.pandoc_success = @ + (IF StartsWith(pandoc, <<"E", "r", "r", "o", "r">>) THEN 0 ELSE 1),
       !.matches = @ + (IF tylax = pandoc THEN 1 ELSE 0)]

VARIABLES
    case,                \* the index of the next entry of MATH_TEST_CASES
    tylax_proc,          \* what the last cargo process did
    pandoc_proc,         \* what the last pandoc process did
    tylax_out,           \* compare_single's tylax_out
    pandoc_out,          \* compare_single's pandoc_out
    verdict,             \* the Result line compare_single printed last
    results,             \* run_all_tests' results
    summary              \* the summary has been printed

harnessVars ==
    <<case, tylax_proc, pandoc_proc, tylax_out, pandoc_out, verdict, results, summary>>

(***************************************************************************)
(* escape_rust_string on its own: a token typed in, then escaped.          *)
(***************************************************************************)
EscChars == {"\\", "\"", "a", "b"}

VARIABLES
    token,               \* the str given to escape_rust_string
    literal              \* <<>>, or <<what escape_rust_string returned>>

escapeVars == <<token, literal>>

vars == <<genVars, harnessVars, escapeVars>>

(***************************************************************************)
(* Initial state: no invocation of either tool yet.                        *)
(***************************************************************************)
InitGen ==
    /\ embedded \in EmbeddedScripts
    /\ maps_rs = <<>>
    /\ runs = 0
    /\ pc = "shell"
    /\ argv = <<>>
    /\ SYMBOL_MAP = <<>>
    /\ COMMANDS_WITH_ARGS = <<>>
    /\ TYPST_TO_TEX = <<>>
    /\ external_maps = <<>>
    /\ rust_code = <<>>

InitHarness ==
    /\ case = 1
    /\ tylax_proc = NoProc
    /\ pandoc_proc = NoProc
    /\ tylax_out = <<>>
    /\ pandoc_out = <<>>
    /\ verdict = "none"
    /\ results = [tylax_success |-> 0, pandoc_success |-> 0, matches |-> 0,
                  total |-> NumCases]
    /\ summary = FALSE

InitEscape ==
    /\ token = <<>>
    /\ literal = <<>>

Init == InitGen /\ InitHarness /\ InitEscape

\* the same, with the script as it stands
InitAsWritten == Init /\ embedded = ScriptAsWritten

(***************************************************************************)
(* gen_maps.py, one invocation after the other.                            *)
(***************************************************************************)
\* SYMBOL_MAP of a process that found the dict of the process before it
SymbolMapKept(previous, display) ==
    IF previous = <<>> THEN DictLiteral(display) ELSE previous

\* SYMBOL_MAP as the module body builds it when the script is loaded
SymbolMapLoaded(previous, display) == DictLiteral(display)

\* python gen_maps.py [path]: a new process, the module body has run
Launch(args) ==
    /\ pc \in {"shell", "done", "crashed"}
    /\ runs < MaxRuns
    /\ runs' = runs + 1
    /\ argv' = args
    /\ SYMBOL_MAP' = SymbolMapLoaded(SYMBOL_MAP, embedded.SYMBOL_MAP)
    /\ COMMANDS_WITH_ARGS' = DictLiteral(embedded.COMMANDS_WITH_ARGS)
    /\ TYPST_TO_TEX' = DictLiteral(embedded.TYPST_TO_TEX)
    /\ external_maps' = <<>>
    /\ rust_code' = <<>>
    /\ pc' = "main"
    /\ UNCHANGED <<embedded, maps_rs, harnessVars, escapeVars>>

\* main: no argument, or map_ts_path.exists() is false
MainNoImport ==
    /\ pc = "main"
    /\ IF Len(argv) = 0 THEN TRUE ELSE argv[1].kind = "missing"
    /\ pc' = "generate"
    /\ UNCHANGED <<embedded, maps_rs, runs, argv, SYMBOL_MAP, COMMANDS_WITH_ARGS,
                   TYPST_TO_TEX, external_maps, rust_code,
                   harnessVars, escapeVars>>

\* a main that has opened maps.rs before it imports: the exception of
\* parse_map_ts leaves the file created and empty
MainImportRaisesAfterOpen ==
    /\ pc = "main"
    /\ IF Len(argv) = 0 THEN FALSE ELSE argv[1].kind = "unreadable"
    /\ pc' = "crashed"
    /\ maps_rs' = << <<>> >>
    /\ UNCHANGED <<embedded, runs, argv, SYMBOL_MAP, COMMANDS_WITH_ARGS,
                   TYPST_TO_TEX, external_maps, rust_code,
                   harnessVars, escapeVars>>

\* main: parse_map_ts raises in open() or read(); nothing catches it
MainImportRaises ==
    /\ pc = "main"
    /\ IF Len(argv) = 0 THEN FALSE ELSE argv[1].kind = "unreadable"
    /\ pc' = "crashed"
    /\ UNCHANGED <<embedded, maps_rs, runs, argv, SYMBOL_MAP, COMMANDS_WITH_ARGS,
                   TYPST_TO_TEX, external_maps, rust_code,
                   harnessVars, escapeVars>>

\* main: external_maps = parse_map_ts(...); SYMBOL_MAP.update(external_maps)
MainImport ==
    /\ pc = "main"
    /\ IF Len(argv) = 0 THEN FALSE ELSE argv[1].kind = "file"
    /\ external_maps' = parse_map_ts(argv[1].content)
    /\ SYMBOL_MAP' = DictUpdate(SYMBOL_MAP, external_maps')
    /\ pc' = "generate"
    /\ UNCHANGED <<embedded, maps_rs, runs, argv, COMMANDS_WITH_ARGS,
                   TYPST_TO_TEX, rust_code,
                   harnessVars, escapeVars>>

\* main: rust_code = generate_rust_code()
Generate ==
    /\ pc = "generate"
    /\ rust_code' = generate_rust_code(SYMBOL_MAP, COMMANDS_WITH_ARGS, TYPST_TO_TEX)
    /\ pc' = "open"
    /\ UNCHANGED <<embedded, maps_rs, runs, argv, SYMBOL_MAP, COMMANDS_WITH_ARGS,
                   TYPST_TO_TEX, external_maps,
                   harnessVars, escapeVars>>

\* main: open(output_path, 'w') creates the file or truncates it
OpenOutput ==
    /\ pc = "open"
    /\ maps_rs' = << <<>> >>
    /\ pc' = "write"
    /\ UNCHANGED <<embedded, runs, argv, SYMBOL_MAP, COMMANDS_WITH_ARGS,
                   TYPST_TO_TEX, external_maps, rust_code,
                   harnessVars, escapeVars>>

\* main: f.write(rust_code), and the file is closed
WriteOutput ==
    /\ pc = "write"
    /\ maps_rs' = <<rust_code>>
    /\ pc' = "done"
    /\ UNCHANGED <<embedded, runs, argv, SYMBOL_MAP, COMMANDS_WITH_ARGS,
                   TYPST_TO_TEX, external_maps, rust_code,
                   harnessVars, escapeVars>>

Next ==
    \/ \E args \in {<<>>} \cup {<<src>> : src \in Sources} : Launch(args)
    \/ MainNoImport
    \/ MainImportRaises
    \/ MainImport
    \/ Generate
    \/ OpenOutput
    \/ WriteOutput

Spec == Init /\ [][Next]_vars

(***************************************************************************)
(* compare.py: run_all_tests.                                              *)
(***************************************************************************)
\* one pass of the loop of run_all_tests: compare_single runs the two
\* processes and prints its Result line, then the totals are updated
RunCase(tp, pp) ==
    /\ ~summary
    /\ case <= NumCases
    /\ tylax_proc' = tp
    /\ pandoc_proc' = pp
    /\ tylax_out' = run_tylax(tp)
    /\ pandoc_out' = run_pandoc(pp)
    /\ verdict' = Result(tylax_out', pandoc_out')
    /\ results' = Tally(results, tylax_out', pandoc_out')
    /\ case' = case + 1
    /\ UNCHANGED <<summary, genVars, escapeVars>>

\* after the loop: the summary is printed
Summary ==
    /\ ~summary
    /\ case > NumCases
    /\ summary' = TRUE
    /\ UNCHANGED <<case, tylax_proc, pandoc_proc, tylax_out, pandoc_out, verdict,
                   results, genVars, escapeVars>>

NextHarness ==
    \/ \E tp \in ProcOutcomes, pp \in ProcOutcomes : RunCase(tp, pp)
    \/ Summary

SpecHarness == InitAsWritten /\ [][NextHarness]_vars

(***************************************************************************)
(* escape_rust_string applied to every token up to MaxTokLen.              *)
(***************************************************************************)
TypeChar(c) ==
    /\ literal = <<>>
    /\ Len(token) < MaxTokLen
    /\ token' = Append(token, c)
    /\ UNCHANGED <<literal, genVars, harnessVars>>

EscapeToken ==
    /\ literal = <<>>
    /\ literal' = <<escape_rust_string(token)>>
    /\ UNCHANGED <<token, genVars, harnessVars>>

NextEscape ==
    \/ \E c \in EscChars : TypeChar(c)
    \/ EscapeToken

SpecEscape == InitAsWritten /\ [][NextEscape]_vars

(***************************************************************************)
(* Reading the emitted text back: the body of a Rust string literal, and   *)
(* the m.insert statements of the forward table.                           *)
(***************************************************************************)
\* what a literal that cannot be read back stands for
InvalidLiteral == <<"(invalid literal)">>

RECURSIVE RustLiteralValue(_)
\* the value of the Rust string literal with this body: \\ is a backslash,
\* \" is a quote, a bare quote ends the literal too early, and a backslash
\* before anything else is no escape of the two
RustLiteralValue(body) ==
    IF body = <<>> THEN <<>>
    ELSE IF Head(body) = "\""
    THEN InvalidLiteral
    ELSE IF Head(body) = "\\"
    THEN IF Len(body) >= 2 /\ body[2] \in {"\\", "\""}
         THEN LET rest == RustLiteralValue(SubSeq(body, 3, Len(body)))
              IN  IF rest = InvalidLiteral THEN InvalidLiteral ELSE <<body[2]>> \o rest
         ELSE InvalidLiteral
    ELSE LET rest == RustLiteralValue(Tail(body))
         IN  IF rest = InvalidLiteral THEN InvalidLiteral ELSE <<Head(body)>> \o rest

IsInsertLine(line) == Len(line) >= 2 /\ line[1] = InsertOpen

\* the insert statement that starts at line i: the name, Cmd or Env, the
\* fixed length ("0" for ArgPattern::None) and the alias (<<>> for None)
InsertAt(text, i) ==
    LET line == text[i]
        kind == IF line[Len(line)] = InsertEnv THEN "Env" ELSE "Cmd"
        args == text[i + 1]
        alias == IF kind = "Env" THEN text[i + 3] ELSE text[i + 2]
    IN  [cmd |-> RustLiteralValue(SubSeq(line, 2, Len(line) - 1)),
         kind |-> kind,
         len |-> IF args[1] = ArgsFixedOpen THEN args[2] ELSE "0",
         alias |-> IF alias = AliasNoneLine THEN <<>>
                   ELSE <<RustLiteralValue(SubSeq(alias, 2, Len(alias) - 1))>>]

\* the insert statements of a text, in the order they are written
EmittedInserts(text) ==
    LET at == SelectSeq([i \in 1..Len(text) |-> i], LAMBDA i : IsInsertLine(text[i]))
    IN  [j \in 1..Len(at) |-> InsertAt(text, at[j])]

\* the inserts of the text this run generated
Inserts == EmittedInserts(rust_code)

\* the inserts that name n
InsertsFor(n) == {j \in 1..Len(Inserts) : Inserts[j].cmd = n}

\* generate_rust_code() has returned in this run
Generated == pc \in {"open", "write", "done"}

\* the names the two catalogs of this run share
InBoth == Keys(SYMBOL_MAP) \cap Keys(COMMANDS_WITH_ARGS)

(***************************************************************************)
(* C1. Precedence.                                                         *)
(***************************************************************************)
\* C1, as stated: for every name n in both SYMBOL_MAP and COMMANDS_WITH_ARGS
\* the emitted forward table has an entry for n of fixed length
\* COMMANDS_WITH_ARGS[n], and no entry for n that carries SYMBOL_MAP[n] as
\* its alias.
C1_AsStated ==
    Generated =>
      \A n \in InBoth :
        /\ \E j \in InsertsFor(n) :
             /\ Inserts[j].kind = "Cmd"
             /\ Inserts[j].len = ToString(Get(COMMANDS_WITH_ARGS, n))
        /\ \A j \in InsertsFor(n) : Inserts[j].alias # <<Get(SYMBOL_MAP, n)>>

\* C1, amended: for every name n in both catalogs the emitted forward table
\* has an entry for n of fixed length COMMANDS_WITH_ARGS[n], every entry for
\* n takes arguments (none is the zero-argument Alias entry), and an entry
\* for n carries an alias only when n is "typstcite", whose fixed entry
\* carries "__typstcite__" whatever SYMBOL_MAP["typstcite"] is.
C1_Precedence ==
    Generated =>
      \A n \in InBoth :
        /\ \E j \in InsertsFor(n) :
             /\ Inserts[j].kind = "Cmd"
             /\ Inserts[j].len = ToString(Get(COMMANDS_WITH_ARGS, n))
        /\ \A j \in InsertsFor(n) :
             /\ Inserts[j].len # "0"
             /\ IF n = Tok_typstcite
                THEN Inserts[j].alias = <<Tok_typstcite_alias>>
                ELSE Inserts[j].alias = <<>>

\* a name of both catalogs from the script (hat) and one the import put
\* into SYMBOL_MAP (typstcite), and the text is generated
C1_Witness ==
    /\ Generated
    /\ Tok_hat \in InBoth
    /\ Tok_typstcite \in InBoth

(***************************************************************************)
(* C2. One forward entry per name.                                         *)
(***************************************************************************)
\* C2, as stated: the emitted text holds exactly one m.insert for each name
\* of SYMBOL_MAP (embedded, or after an import was merged) or of
\* COMMANDS_WITH_ARGS, and for "typstcite" and "aligned".
C2_OneInsertPerName ==
    Generated =>
      \A n \in Keys(SYMBOL_MAP) \cup Keys(COMMANDS_WITH_ARGS)
               \cup {Tok_typstcite, Tok_aligned} :
        Cardinality(InsertsFor(n)) = 1

(***************************************************************************)
(* C3. Determinism.                                                        *)
(***************************************************************************)
\* d with its items in the order f gives
Reordered(d, f) == [i \in 1..Len(d) |-> d[f[i]]]

\* every insertion order of the items of d
Orders(d) == {Reordered(d, f) : f \in Permutations(1..Len(d))}

\* C3: the text generated from the catalogs of a run is the text generated
\* from catalogs of the same contents whose entries were inserted in any
\* other order, for each of the three catalogs.
C3_Determinism ==
    pc = "open" =>
      /\ \A s \in Orders(SYMBOL_MAP) :
           generate_rust_code(s, COMMANDS_WITH_ARGS, TYPST_TO_TEX) = rust_code
      /\ \A c \in Orders(COMMANDS_WITH_ARGS) :
           generate_rust_code(SYMBOL_MAP, c, TYPST_TO_TEX) = rust_code
      /\ \A t \in Orders(TYPST_TO_TEX) :
           generate_rust_code(SYMBOL_MAP, COMMANDS_WITH_ARGS, t) = rust_code

\* the text is generated from a SYMBOL_MAP into which the import merged two
\* new names, in an order that is not the sorted one
C3_Witness ==
    /\ pc = "open"
    /\ Len(SYMBOL_MAP) = Len(embedded.SYMBOL_MAP) + 2
    /\ SYMBOL_MAP # SortedItems(SYMBOL_MAP)
    /\ StrLess(SYMBOL_MAP[Len(SYMBOL_MAP)][1], SYMBOL_MAP[Len(SYMBOL_MAP) - 1][1])

(***************************************************************************)
(* C4. Conflicts in the reverse catalog.                                   *)
(***************************************************************************)
\* the display writes some key twice, with two values
DeclaresConflict(display) ==
    \E i, j \in 1..Len(display) :
      display[i][1] = display[j][1] /\ display[i][2] # display[j][2]

\* C4, as stated: when the TYPST_TO_TEX display gives one key two different
\* values, no run completes (each ends in an error) and maps.rs is never
\* created or written.
C4_ConflictPreventsOutput ==
    DeclaresConflict(embedded.TYPST_TO_TEX) =>
      /\ pc # "done"
      /\ maps_rs = <<>>

(***************************************************************************)
(* C5. Escaping round trip.                                                *)
(***************************************************************************)
\* C5: escape_rust_string returns a str for every token (of backslashes,
\* quotes and ordinary characters), and the Rust string literal with that
\* body reads back as the token.
C5_RoundTrip ==
    literal # <<>> =>
      /\ \A i \in 1..Len(literal[1]) : literal[1][i] \in EscChars
      /\ RustLiteralValue(literal[1]) = token

\* a token with a backslash, a quote and an ordinary character was escaped
C5_Witness ==
    /\ literal # <<>>
    /\ {token[i] : i \in 1..Len(token)} = {"\\", "\"", "a"}

(***************************************************************************)
(* C6. A failed import.                                                    *)
(***************************************************************************)
\* SYMBOL_MAP as the script embeds it
Baseline == DictLiteral(embedded.SYMBOL_MAP)

\* the run was given a path, and the source there is missing, cannot be
\* read, or holds no pair the patterns keep
ImportYieldsNothing ==
    /\ pc # "shell"
    /\ Len(argv) > 0
    /\ \/ argv[1].kind \in {"missing", "unreadable"}
       \/ argv[1].kind = "file" /\ parse_map_ts(argv[1].content) = <<>>

\* C6, as stated: a run whose source is missing, unreadable or without
\* matches never aborts, merges nothing and leaves SYMBOL_MAP as embedded.
C6_ImportFailureNonFatal ==
    ImportYieldsNothing =>
      /\ pc # "crashed"
      /\ external_maps = <<>>
      /\ SYMBOL_MAP = Baseline

(***************************************************************************)
(* C7. The merge of an import.                                             *)
(***************************************************************************)
\* C7: the step of main that merges external_maps (M) into SYMBOL_MAP (S)
\* leaves every name of M with its value in M, every other name of S with
\* the value it had, no name from elsewhere and no name twice, and does not
\* change COMMANDS_WITH_ARGS or TYPST_TO_TEX.
C7_MergePolicy ==
    [][ (pc = "main" /\ pc' = "generate") =>
          /\ \A k \in Keys(external_maps') :
               Get(SYMBOL_MAP', k) = Get(external_maps', k)
          /\ \A k \in Keys(SYMBOL_MAP) \ Keys(external_maps') :
               Has(SYMBOL_MAP', k) /\ Get(SYMBOL_MAP', k) = Get(SYMBOL_MAP, k)
          /\ Keys(SYMBOL_MAP') = Keys(SYMBOL_MAP) \cup Keys(external_maps')
          /\ Cardinality(Keys(SYMBOL_MAP')) = Len(SYMBOL_MAP')
          /\ COMMANDS_WITH_ARGS' = COMMANDS_WITH_ARGS
          /\ TYPST_TO_TEX' = TYPST_TO_TEX ]_vars

\* an import was merged that gave an embedded name another value and
\* brought a new name
C7_Witness ==
    /\ pc = "generate"
    /\ \E k \in Keys(external_maps) :
         Has(Baseline, k) /\ Get(Baseline, k) # Get(external_maps, k)
    /\ \E k \in Keys(external_maps) : ~Has(Baseline, k)
    /\ \E k \in Keys(Baseline) : ~Has(external_maps, k)

(***************************************************************************)
(* C8. Run independence.                                                   *)
(***************************************************************************)
\* the text compiled from the embedded catalogs alone
EmbeddedText ==
    generate_rust_code(DictLiteral(embedded.SYMBOL_MAP),
                       DictLiteral(embedded.COMMANDS_WITH_ARGS),
                       DictLiteral(embedded.TYPST_TO_TEX))

\* C8: a run without argument generates, and leaves in maps.rs, the text
\* compiled from the embedded catalogs, whatever runs came before it.
C8_RunIndependence ==
    (pc # "shell" /\ argv = <<>>) =>
      /\ Generated => rust_code = EmbeddedText
      /\ pc = "done" => maps_rs = <<EmbeddedText>>

\* a run without argument has generated its text while maps.rs still holds
\* the other text that the run before it compiled from an import
C8_Witness ==
    /\ pc = "open"
    /\ argv = <<>>
    /\ runs > 1
    /\ maps_rs # <<>>
    /\ maps_rs # <<rust_code>>

(***************************************************************************)
(* C9. The match rule of the harness.                                      *)
(***************************************************************************)
\* the two processes of the last test case ran and exited with status 0
BothSucceeded ==
    /\ tylax_proc.kind = "exited" /\ tylax_proc.returncode = 0
    /\ pandoc_proc.kind = "exited" /\ pandoc_proc.returncode = 0

\* C9, as stated: for two processes that succeeded, a match is reported if
\* and only if what they wrote is character-identical.
C9_AsStated ==
    BothSucceeded => (verdict = "MATCH" <=> tylax_proc.stdout = pandoc_proc.stdout)

\* C9, amended: in each test case a match is reported if and only if the
\* strings run_tylax and run_pandoc return are identical, which for two
\* processes that succeeded is if and only if what they wrote is identical
\* once leading and trailing whitespace is removed; the reported matches,
\* and no other case, are counted in results["matches"].
C9_MatchRule ==
    [][ case' = case + 1 =>
          /\ verdict' = "MATCH" <=> tylax_out' = pandoc_out'
          /\ BothSucceeded' =>
               (verdict' = "MATCH" <=>
                  Strip(tylax_proc'.stdout) = Strip(pandoc_proc'.stdout))
          /\ results'.matches =
               results.matches + (IF verdict' = "MATCH" THEN 1 ELSE 0) ]_vars

\* two processes succeeded with outputs that differ in their leading or
\* trailing whitespace only, and the case was counted as a match
C9_Witness ==
    /\ BothSucceeded
    /\ tylax_proc.stdout # pandoc_proc.stdout
    /\ Strip(tylax_proc.stdout) = Strip(pandoc_proc.stdout)
    /\ Strip(tylax_proc.stdout) # <<>>
    /\ verdict = "MATCH"
    /\ results.matches > 0

(***************************************************************************)
(* C10. The classification of process failures.                            *)
(***************************************************************************)
\* the process did not start, ran out of time, or exited with a status
\* other than 0
Failed(proc) ==
    proc.kind \in {"spawn_failure", "timeout"}
    \/ (proc.kind = "exited" /\ proc.returncode # 0)

Error == <<"E", "r", "r", "o", "r">>

\* C10, as stated: whenever the process of a backend failed, the string
\* returned for it begins with "Error", the case is not among that
\* backend's successes, and the harness has gone on to the next case.
C10_FailuresAreErrors ==
    /\ Failed(tylax_proc) =>
         /\ StartsWith(tylax_out, Error)
         /\ results.tylax_success < case - 1
    /\ Failed(pandoc_proc) =>
         /\ StartsWith(pandoc_out, Error)
         /\ results.pandoc_success < case - 1

(***************************************************************************)
(* C11. The order of the forward table.                                    *)
(***************************************************************************)
\* the insert is one of the two the code writes whatever the catalogs hold:
\* the typstcite command with its alias, or the aligned environment
IsFixedInsert(e) ==
    \/ e.kind = "Env"
    \/ (e.cmd = Tok_typstcite /\ e.alias = <<Tok_typstcite_alias>>)

\* the insert is an Alias entry: a command without arguments, with an alias
IsAliasInsert(e) == e.kind = "Cmd" /\ e.len = "0" /\ e.alias # <<>>

\* the insert is an Arity entry: a command of a fixed length, without alias
IsArityInsert(e) == e.kind = "Cmd" /\ e.len # "0" /\ e.alias = <<>>

ScriptWithEmptyTokens ==
    [SYMBOL_MAP |->
       << <<Tok_pi, Tok_pi>>, <<<<>>, Tok_x>>, <<Tok_in, <<>>>>, <<Tok_hat, Tok_hat>> >>,
     COMMANDS_WITH_ARGS |->
       << <<Tok_hat, 1>>, <<<<>>, 1>>, <<Tok_frac, 2>>, <<Tok_typstcite, 1>> >>,
     TYPST_TO_TEX |->
       << <<Tok_pi, Tok_pi>>, <<<<>>, Tok_x>>, <<Tok_in, <<>>>> >>]

\* no invocation yet, of the script with the empty tokens
InitEmptyTokens ==
    /\ embedded = ScriptWithEmptyTokens
    /\ maps_rs = <<>>
    /\ runs = 0
    /\ pc = "shell"
    /\ argv = <<>>
    /\ SYMBOL_MAP = <<>>
    /\ COMMANDS_WITH_ARGS = <<>>
    /\ TYPST_TO_TEX = <<>>
    /\ external_maps = <<>>
    /\ rust_code = <<>>
    /\ InitHarness
    /\ InitEscape

SpecEmptyTokens == InitEmptyTokens /\ [][Next]_vars

IsPhfLine(line) == Len(line) >= 3 /\ line[1] = PhfOpen

\* the entry of the phf_map written on a line: its key and its value
PhfAt(line) ==
    LET arrow == CHOOSE i \in 2..(Len(line) - 1) : line[i] = PhfArrow
    IN  [key |-> RustLiteralValue(SubSeq(line, 2, arrow - 1)),
         value |-> RustLiteralValue(SubSeq(line, arrow + 1, Len(line) - 1))]

\* the entries of the phf_map of a text, in the order they are written
EmittedPhf(text) ==
    LET at == SelectSeq([i \in 1..Len(text) |-> i], LAMBDA i : IsPhfLine(text[i]))
    IN  [j \in 1..Len(at) |-> PhfAt(text[at[j]])]

\* C12, as stated: the generated text holds no insert with an empty name or
\* an empty alias, and no phf_map entry with an empty key or value.
C12_NoEmptyToken ==
    Generated =>
      /\ \A j \in 1..Len(Inserts) :
           Inserts[j].cmd # <<>> /\ Inserts[j].alias # << <<>> >>
      /\ \A j \in 1..Len(EmittedPhf(rust_code)) :
           /\ EmittedPhf(rust_code)[j].key # <<>>
           /\ EmittedPhf(rust_code)[j].value # <<>>

(***************************************************************************)
(* C13. The one write of the output.                                       *)
(***************************************************************************)
\* C13: maps.rs changes only in the two steps of a run that open it and
\* write it, in this order and once each per run, after the import and with
\* the whole text generated from the dicts as the import left them; a run
\* that ends in an exception does so in its import, before generation, and
\* leaves maps.rs as it found it.
C13_WriteOrdering ==
    [][ /\ maps_rs' # maps_rs =>
             /\ pc \in {"open", "write"}
             /\ runs' = runs
             /\ rust_code =
                  generate_rust_code(SYMBOL_MAP, COMMANDS_WITH_ARGS, TYPST_TO_TEX)
             /\ pc = "open" => (maps_rs' = << <<>> >> /\ pc' = "write")
             /\ pc = "write" => (maps_rs' = <<rust_code>> /\ pc' = "done")
        /\ pc' = "write" => pc \in {"open", "write"}
        /\ pc' = "open" => pc \in {"generate", "open"}
        /\ pc' = "generate" => pc \in {"main", "generate"}
        /\ (pc' = "main" /\ pc # "main") => runs' = runs + 1
        /\ pc' = "crashed" =>
             /\ pc \in {"main", "crashed"}
             /\ maps_rs' = maps_rs
        /\ (pc = "crashed" /\ pc' # "crashed") => runs' = runs + 1 ]_vars

\* a second run has ended in the exception of its import, and maps.rs holds
\* the whole text the first run wrote
C13_Witness ==
    /\ pc = "crashed"
    /\ runs = 2
    /\ maps_rs # <<>>
    /\ maps_rs # << <<>> >>

(***************************************************************************)
(* C14. The fixed entries are the final bindings of their names.           *)
(***************************************************************************)
\* the entry a name is bound to once the emitted inserts have been applied
\* in order: HashMap::insert replaces, so the last insert for the name
FinalBinding(name) ==
    LET at == InsertsFor(name)
        last == CHOOSE k \in at : \A j \in at : j <= k
    IN  Inserts[last]

\* C14: whatever SYMBOL_MAP holds after the import, the table built from the
\* emitted inserts binds typstcite to the command of one argument with alias
\* __typstcite__ and aligned to the environment of no argument and no alias.
C14_FixedEntriesBind ==
    Generated =>
        /\ InsertsFor(Tok_typstcite) # {}
        /\ InsertsFor(Tok_aligned) # {}
        /\ FinalBinding(Tok_typstcite) =
             [cmd |-> Tok_typstcite, kind |-> "Cmd", len |-> "1",
              alias |-> <<Tok_typstcite_alias>>]
        /\ FinalBinding(Tok_aligned) =
             [cmd |-> Tok_aligned, kind |-> "Env", len |-> "0",
              alias |-> <<>>]

\* the import has merged entries named typstcite and aligned into SYMBOL_MAP
\* and the text has been generated from it
C14_Witness ==
    /\ Generated
    /\ Has(SYMBOL_MAP, Tok_typstcite)
    /\ Has(SYMBOL_MAP, Tok_aligned)
    /\ Cardinality(InsertsFor(Tok_aligned)) = 2

====
